---------------------------- MODULE Spec2Model ----------------------------
(***************************************************************************)
(* A model of radiogaga.py: the station catalog extraction loop, the       *)
(* input parser, the completion engine and the REPL of main().             *)
(* Python strings are TLA+ strings; a character is a string of length 1.   *)
(***************************************************************************)
EXTENDS Integers, Sequences, FiniteSets, TLC

VARIABLES
    links,           \* download_radio_stations_urls: the anchors found by find_all
    idx,             \* position of the for-loop in links
    radio_stations,  \* the dict being built, a function name -> href
    station,         \* the local `station` (Unbound until a header is seen)
    count,           \* the local `count` (Unbound until a header is seen)
    ex_pc,           \* "loop", "returned", "raised", or "off"
    user_input,      \* parse_user_input: its argument
    parsed,          \* parse_user_input: the pair it returned (NotParsed before)
    pa_pc,           \* "call", "done", or "off"
    document,        \* get_completions: [text, cursor_position] of the Document
    commands,        \* RadioCompleter.commands
    stations,        \* RadioCompleter.stations, a function name -> url
    completions,     \* get_completions: what the generator produced
    co_pc,           \* "call", "done", or "off"
    main_pc,         \* main: "start", "AwaitingInput", "Raised", "Dispatching",
                     \*       "Playing", "Stopped", "Crashed", or "off"
    PLAYER,          \* the global PLAYER (args.player)
    refresh,         \* args.refresh
    stations_file,   \* the stations file: NoFile, <<d>> when it holds the dict d, or
                     \* PartialFile(d) when it holds a cut-off part of d's JSON text
    exc,             \* the exception propagating in the REPL's try block, or None
    running,         \* number of player processes alive
    cmd_line,        \* argv of the player spawned by the latest dispatch, or <<>>
    printed,         \* the lines the latest dispatch printed or paged
    n_interrupts     \* KeyboardInterrupts caught by the REPL so far

\* In main, radio_stations is main's own local of that name (the dict returned
\* by download_radio_stations_urls or loaded from the file), and user_input,
\* parsed are the locals user_input and (command, station_name).
exlocals == <<links, idx, station, count, ex_pc>>
exvars == <<exlocals, radio_stations>>
pavars == <<user_input, parsed, pa_pc>>
covars == <<document, commands, stations, completions, co_pc>>
mavars == <<main_pc, PLAYER, refresh, stations_file, exc, running, cmd_line, printed,
            n_interrupts>>

vars == <<exvars, pavars, covars, mavars>>

-----------------------------------------------------------------------------
(* Bounds of the model *)

MaxAnchors == 5       \* anchors in the source document given to the extraction loop
MaxFetched == 3       \* anchors in the document fetched by main's refresh
MaxLineTokens == 5    \* tokens of a line handed to parse_user_input
MaxDocTokens == 3     \* tokens of a line under completion
MaxInterrupts == 2    \* KeyboardInterrupts delivered to one run of the REPL

-----------------------------------------------------------------------------
(* Python str primitives *)

Ch(s, i) == SubSeq(s, i, i)

Whitespace == {" ", "\t"}

IsSpace(c) == c \in Whitespace

\* sub in s
Contains(s, sub) ==
    \E i \in 1..(Len(s) - Len(sub) + 1) : SubSeq(s, i, i + Len(sub) - 1) = sub

StartsWith(s, p) == Len(s) >= Len(p) /\ SubSeq(s, 1, Len(p)) = p

RECURSIVE lstrip(_)
lstrip(s) ==
    IF s # "" /\ IsSpace(Ch(s, 1)) THEN lstrip(Tail(s)) ELSE s

RECURSIVE rstrip(_)
rstrip(s) ==
    IF s # "" /\ IsSpace(Ch(s, Len(s))) THEN rstrip(SubSeq(s, 1, Len(s) - 1)) ELSE s

strip(s) == rstrip(lstrip(s))

\* length of the leading run of non-whitespace characters of s
RECURSIVE WordLen(_)
WordLen(s) ==
    IF s = "" \/ IsSpace(Ch(s, 1)) THEN 0 ELSE 1 + WordLen(Tail(s))

\* s.split(): the maximal runs of non-whitespace characters, in order
RECURSIVE split(_)
split(s) ==
    LET t == lstrip(s)
        n == WordLen(t)
    IN  IF t = "" THEN <<>>
        ELSE <<SubSeq(t, 1, n)>> \o split(SubSeq(t, n + 1, Len(t)))

\* sep.join(words)
RECURSIVE join(_, _)
join(sep, words) ==
    IF words = <<>> THEN ""
    ELSE IF Len(words) = 1 THEN words[1]
    ELSE words[1] \o sep \o join(sep, Tail(words))

Digits == "0123456789"

\* str(n) for a natural number n
RECURSIVE str(_)
str(n) ==
    IF n < 10 THEN Ch(Digits, n + 1) ELSE str(n \div 10) \o Ch(Digits, (n % 10) + 1)

-----------------------------------------------------------------------------
(* Values of the model that are no Python str *)

None == "<None>"

NoDict == [k \in {} |-> ""]

NotParsed == [command |-> None, station_name |-> None]

NoFile == <<>>

PartialFile(d) == <<d, "partial">>

-----------------------------------------------------------------------------
(* download_radio_stations_urls *)

Unbound == "<unbound>"     \* a local variable that has not been assigned

IsAlnum(c) == Contains("abcdefghijklmnopqrstuvwxyzABCDEFGHIJKLMNOPQRSTUVWXYZ0123456789", c)

\* URL_PATTERN.match(text): re.compile(r"https?://") anchored at the start
URL_PATTERN_match(text) == StartsWith(text, "http://") \/ StartsWith(text, "https://")

\* EXCLUDE_HREF_PATTERNS[0].search(href): [^A-Za-z0-9]lofi[^A-Za-z0-9]
EXCLUDE_HREF_search(href) ==
    \E i \in 1..(Len(href) - 5) :
        /\ ~IsAlnum(Ch(href, i))
        /\ SubSeq(href, i + 1, i + 4) = "lofi"
        /\ ~IsAlnum(Ch(href, i + 5))

\* any(pattern.search(href) for pattern in exclude_href_patterns)
Excluded(href) == EXCLUDE_HREF_search(href)

\* radio_stations[key] = href
DictSet(d, key, href) ==
    [k \in (DOMAIN d) \cup {key} |-> IF k = key THEN href ELSE d[k]]

EmptyDict == [k \in {} |-> ""]

\* f"{station} {count}"
SuffixedKey(st, cnt) == st \o " " \o str(cnt)

\* The loop body with a slip: an excluded link still advances the counter.
LoopBody_CountsExcluded(rs, st, cnt, link) ==
    IF ~URL_PATTERN_match(link.text)
    THEN [radio_stations |-> rs, station |-> link.text, count |-> 1, raised |-> FALSE]
    ELSE IF st = Unbound
    THEN [radio_stations |-> rs, station |-> st, count |-> cnt, raised |-> ~Excluded(link.href)]
    ELSE IF Excluded(link.href)
    THEN [radio_stations |-> rs, station |-> st, count |-> cnt + 1, raised |-> FALSE]
    ELSE IF st \in DOMAIN rs
    THEN [radio_stations |-> DictSet(rs, SuffixedKey(st, cnt + 1), link.href),
          station |-> st, count |-> cnt + 1, raised |-> FALSE]
    ELSE [radio_stations |-> DictSet(rs, st, link.href),
          station |-> st, count |-> cnt, raised |-> FALSE]

\* One iteration of the for-loop over links, on the locals (rs, st, cnt).
\* raised is TRUE when the iteration ends in UnboundLocalError.
LoopBody(rs, st, cnt, link) ==
    IF ~URL_PATTERN_match(link.text)
    THEN [radio_stations |-> rs, station |-> link.text, count |-> 1, raised |-> FALSE]
    ELSE IF Excluded(link.href)
    THEN [radio_stations |-> rs, station |-> st, count |-> cnt, raised |-> FALSE]
    ELSE IF st = Unbound
    THEN [radio_stations |-> rs, station |-> st, count |-> cnt, raised |-> TRUE]
    ELSE IF st \in DOMAIN rs
    THEN [radio_stations |-> DictSet(rs, SuffixedKey(st, cnt + 1), link.href),
          station |-> st, count |-> cnt + 1, raised |-> FALSE]
    ELSE [radio_stations |-> DictSet(rs, st, link.href),
          station |-> st, count |-> cnt, raised |-> FALSE]

\* The locals before the first iteration.
LoopStart ==
    [radio_stations |-> EmptyDict, station |-> Unbound, count |-> Unbound, raised |-> FALSE]

\* The whole for-loop over ls; an iteration that raises ends it.
RECURSIVE RunLoop(_)
RunLoop(ls) ==
    IF ls = <<>> THEN LoopStart
    ELSE LET p == RunLoop(SubSeq(ls, 1, Len(ls) - 1))
         IN  IF p.raised THEN p
             ELSE LoopBody(p.radio_stations, p.station, p.count, ls[Len(ls)])

\* The anchors the source document can hold: station headers (text is not a
\* URL) and stream links (text is a URL); every href matches URL_PATTERN.
Anchors ==
    { [text |-> "X",              href |-> "http://x"],
      [text |-> "X 2",            href |-> "http://x/lofi/2"],
      [text |-> "http://a",       href |-> "http://a"],
      [text |-> "https://b",      href |-> "https://b/s"],
      [text |-> "http://c/lofi/", href |-> "http://c/lofi/"] }

AnchorSeqs == UNION { [1..n -> Anchors] : n \in 0..MaxAnchors }

FetchedSeqs == UNION { [1..n -> Anchors] : n \in 0..MaxFetched }

\* The variables of a part of the program that is not running.
ExtractOff ==
    /\ links = <<>>
    /\ idx = 0
    /\ radio_stations = NoDict
    /\ station = Unbound
    /\ count = Unbound
    /\ ex_pc = "off"

ParseOff ==
    /\ user_input = None
    /\ parsed = NotParsed
    /\ pa_pc = "off"

\* The values of the completer's variables before any call: no line typed,
\* nothing yielded.
NoDocument == [text |-> "", cursor_position |-> 0]

NoCompletions == [completions |-> {}, raised |-> FALSE]

CompleteOff ==
    /\ document = NoDocument
    /\ commands = {}
    /\ stations = NoDict
    /\ completions = NoCompletions
    /\ co_pc = "off"

MainOff ==
    /\ main_pc = "off"
    /\ PLAYER = None
    /\ refresh = FALSE
    /\ stations_file = NoFile
    /\ exc = None
    /\ running = 0
    /\ cmd_line = <<>>
    /\ printed = {}
    /\ n_interrupts = 0

ExtractInit ==
    /\ ParseOff
    /\ CompleteOff
    /\ MainOff
    /\ links \in AnchorSeqs
    /\ idx = 1
    /\ radio_stations = EmptyDict
    /\ station = Unbound
    /\ count = Unbound
    /\ ex_pc = "loop"

\* for link in links: ...
LoopStep ==
    /\ ex_pc = "loop"
    /\ idx <= Len(links)
    /\ LET r == LoopBody(radio_stations, station, count, links[idx])
       IN  /\ radio_stations' = r.radio_stations
           /\ station' = r.station
           /\ count' = r.count
           /\ ex_pc' = IF r.raised THEN "raised" ELSE "loop"
    /\ idx' = idx + 1
    /\ UNCHANGED <<links, pavars, covars, mavars>>

\* return radio_stations
Return ==
    /\ ex_pc = "loop"
    /\ idx > Len(links)
    /\ ex_pc' = "returned"
    /\ UNCHANGED <<links, idx, radio_stations, station, count, pavars, covars, mavars>>

ExtractNext == LoopStep \/ Return

SpecExtract == ExtractInit /\ [][ExtractNext]_vars

-----------------------------------------------------------------------------
(* Properties of the extraction loop *)

IsHeader(a) == ~URL_PATTERN_match(a.text)

IsEmittedLink(a) == URL_PATTERN_match(a.text) /\ ~Excluded(a.href)

\* C1: extraction never raises, whatever the anchor sequence.
C1_ExtractionNeverRaises == ex_pc # "raised"

\* The hrefs of the non-excluded links that follow a header with text S
\* (cur is the text of the latest header), in anchor order.
RECURSIVE Attributed(_, _, _)
Attributed(ls, cur, S) ==
    IF ls = <<>> THEN <<>>
    ELSE LET a == Head(ls)
         IN  IF IsHeader(a) THEN Attributed(Tail(ls), a.text, S)
             ELSE (IF cur = S /\ IsEmittedLink(a) THEN <<a.href>> ELSE <<>>)
                  \o Attributed(Tail(ls), cur, S)

\* The k-th key of station S: S, "S 2", "S 3", ...
OccurrenceKey(S, k) == IF k = 1 THEN S ELSE S \o " " \o str(k)

HeaderTexts == { links[i].text : i \in { j \in 1..Len(links) : IsHeader(links[j]) } }

\* C2: for a sequence that starts with a header, the returned catalog maps
\* the k-th key of every station S to the href of the k-th non-excluded link
\* attributed to S, for every k up to the number of such links.
C2_AllLinksRetained ==
    (ex_pc = "returned" /\ links # <<>> /\ IsHeader(links[1])) =>
        \A S \in HeaderTexts :
            LET hs == Attributed(links, Unbound, S)
            IN  \A k \in 1..Len(hs) :
                    /\ OccurrenceKey(S, k) \in DOMAIN radio_stations
                    /\ radio_stations[OccurrenceKey(S, k)] = hs[k]

\* The entry h was written under the bare name h by an iteration already run.
WrittenBare(h) ==
    \E j \in 1..(idx - 1) :
        LET p == RunLoop(SubSeq(links, 1, j - 1))
        IN  /\ j <= Len(links)
            /\ IsEmittedLink(links[j])
            /\ ~p.raised
            /\ p.station = h
            /\ h \notin DOMAIN p.radio_stations

\* C3: an entry written under a station's bare name keeps its href through
\* every later iteration of the loop.
C3_BareEntryNeverOverwritten ==
    [][\A h \in HeaderTexts :
          (WrittenBare(h) /\ h \in DOMAIN radio_stations) =>
              (h \in DOMAIN radio_stations' /\ radio_stations'[h] = radio_stations[h])]_vars

\* links without the stream links whose href matches an exclude pattern
RECURSIVE WithoutExcluded(_)
WithoutExcluded(ls) ==
    IF ls = <<>> THEN <<>>
    ELSE (IF URL_PATTERN_match(Head(ls).text) /\ Excluded(Head(ls).href)
          THEN <<>> ELSE <<Head(ls)>>) \o WithoutExcluded(Tail(ls))

\* C4: no excluded href is a catalog value, and after every iteration the
\* catalog, the current station and the counter (or the raise) are those of
\* the loop run over the same anchors with the excluded links removed.
C4_ExcludedLinksInvisible ==
    /\ \A k \in DOMAIN radio_stations : ~Excluded(radio_stations[k])
    /\ ex_pc \in {"loop", "returned", "raised"} =>
          LET r == RunLoop(WithoutExcluded(SubSeq(links, 1, idx - 1)))
          IN  /\ r.raised = (ex_pc = "raised")
              /\ ~r.raised => /\ radio_stations = r.radio_stations
                              /\ station = r.station
                              /\ count = r.count

\* An excluded link sits between two emitted links of one station, and the
\* second emitted link took the counter value 2.
C4_Witness ==
    /\ ex_pc = "returned"
    /\ station # Unbound
    /\ count = 2
    /\ \E i \in 2..(Len(links) - 1) :
          /\ IsEmittedLink(links[i - 1])
          /\ URL_PATTERN_match(links[i].text) /\ Excluded(links[i].href)
          /\ IsEmittedLink(links[i + 1])
          /\ SuffixedKey(station, 2) \in DOMAIN radio_stations
          /\ radio_stations[SuffixedKey(station, 2)] = links[i + 1].href

-----------------------------------------------------------------------------
(* parse_user_input *)

\* concatenation of a sequence of strings
RECURSIVE Concat(_)
Concat(ts) == IF ts = <<>> THEN "" ELSE Head(ts) \o Concat(Tail(ts))

TokenLines(tokens, n) == { Concat(ts) : ts \in UNION { [1..k -> tokens] : k \in 0..n } }

\* parse_user_input(user_input): the pair (command, station name or None)
parse_user_input(line) ==
    LET stripped_user_input == strip(line)
        splitted_user_input == split(stripped_user_input)
    IN  IF Contains(stripped_user_input, " ")
        THEN [command |-> splitted_user_input[1],
              station_name |-> join(" ", Tail(splitted_user_input))]
        ELSE [command |-> stripped_user_input, station_name |-> None]

\* Anchors whose header text carries whitespace as the page wrote it:
\* link.text is the raw text of the anchor, never stripped or collapsed.
SpacedAnchors ==
    { [text |-> "A  B",     href |-> "http://x"],
      [text |-> " A",       href |-> "http://x"],
      [text |-> "A ",       href |-> "http://x"],
      [text |-> "X",        href |-> "http://x"],
      [text |-> "http://a", href |-> "http://a"] }

\* The keys download_radio_stations_urls can put in the catalog: a header's
\* raw text, or that text plus " k".
ExtractableNames ==
    UNION { DOMAIN RunLoop(ls).radio_stations :
              ls \in { l \in UNION { [1..n -> SpacedAnchors] : n \in 0..MaxFetched } :
                          ~RunLoop(l).raised } }

\* the commands of COMMANDS that take a station name from the catalog
StationCommands == {"play", "listen", "show", "info"}

\* The line after accepting a station suggestion: Completion(m, -(cursor -
\* offset_stations_string)) replaces the query after "<command> " by m.
AcceptedLines == { c \o " " \o n : c \in StationCommands, n \in ExtractableNames }

\* The lines handed to parse_user_input.
ParseLines ==
    TokenLines({"play", "X", "2", " ", "\t"}, MaxLineTokens)
        \cup {"  play   France Inter  ", "search"}
        \cup AcceptedLines

ParseInit ==
    /\ ExtractOff
    /\ CompleteOff
    /\ MainOff
    /\ user_input \in ParseLines
    /\ parsed = NotParsed
    /\ pa_pc = "call"

ParseCall ==
    /\ pa_pc = "call"
    /\ parsed' = parse_user_input(user_input)
    /\ pa_pc' = "done"
    /\ UNCHANGED <<user_input, exvars, covars, mavars>>

ParseNext == ParseCall

SpecParse == ParseInit /\ [][ParseNext]_vars

-----------------------------------------------------------------------------
(* Properties of parse_user_input *)

HasWhitespace(s) == \E i \in 1..Len(s) : IsSpace(Ch(s, i))

\* C5: with t the trimmed line, the result is (t, None) when t holds no
\* whitespace character; otherwise the command is the token before the first
\* run of whitespace and the argument is the remaining words joined by single
\* spaces; the command never holds a whitespace character.
C5_ParseFollowsGrammar ==
    pa_pc = "done" =>
        LET t == strip(user_input)
        IN  /\ ~HasWhitespace(parsed.command)
            /\ IF ~HasWhitespace(t)
               THEN parsed = [command |-> t, station_name |-> None]
               ELSE /\ parsed.command = SubSeq(t, 1, WordLen(t))
                    /\ parsed.station_name = join(" ", Tail(split(t)))

-----------------------------------------------------------------------------
(* fuzzyfinder, prompt_toolkit.Document and RadioCompleter.get_completions *)

UpperCase == "ABCDEFGHIJKLMNOPQRSTUVWXYZ"
LowerCase == "abcdefghijklmnopqrstuvwxyz"

\* c.lower() for one character
lower(c) ==
    IF Contains(UpperCase, c) /\ Len(c) = 1
    THEN Ch(LowerCase, CHOOSE i \in 1..Len(UpperCase) : Ch(UpperCase, i) = c)
    ELSE c

\* The characters of query occur in cand in order, not necessarily side by
\* side, whatever their case.
RECURSIVE FuzzyMatch(_, _)
FuzzyMatch(query, cand) ==
    IF query = "" THEN TRUE
    ELSE IF cand = "" THEN FALSE
    ELSE IF lower(Ch(query, 1)) = lower(Ch(cand, 1))
         THEN FuzzyMatch(Tail(query), Tail(cand))
         ELSE FuzzyMatch(query, Tail(cand))

\* fuzzyfinder(input, collection), as the set of the candidates it yields
fuzzyfinder(input, collection) == { c \in collection : FuzzyMatch(input, c) }

\* Document.current_line_before_cursor of a one-line document
current_line_before_cursor(doc) == SubSeq(doc.text, 1, doc.cursor_position)

\* length of the trailing run of non-whitespace characters of s
RECURSIVE TrailingWordLen(_)
TrailingWordLen(s) ==
    IF s = "" \/ IsSpace(Ch(s, Len(s))) THEN 0
    ELSE 1 + TrailingWordLen(SubSeq(s, 1, Len(s) - 1))

\* Document.get_word_before_cursor(WORD=True)
get_word_before_cursor(doc) ==
    LET t == current_line_before_cursor(doc)
    IN  SubSeq(t, Len(t) - TrailingWordLen(t) + 1, Len(t))

\* Station mode with a slip: the space after the command is not skipped.
StationCompletions_NoSkip(doc, cmds, stns) ==
    LET text_before_cursor == current_line_before_cursor(doc)
        words == split(text_before_cursor)
        offset_stations_string ==
            Len(text_before_cursor) - Len(lstrip(text_before_cursor)) + Len(words[1])
    IN  IF words = <<>> THEN [completions |-> {}, raised |-> TRUE]
        ELSE IF words[1] \notin cmds THEN [completions |-> {}, raised |-> FALSE]
        ELSE [completions |->
                { [text |-> m,
                   start_position |-> -(doc.cursor_position - offset_stations_string),
                   display_meta |-> stns[m]] :
                  m \in fuzzyfinder(SubSeq(text_before_cursor, offset_stations_string + 1,
                                           Len(text_before_cursor)), DOMAIN stns) },
              raised |-> FALSE]

\* The branch of get_completions taken when " " is in the text before the
\* cursor. raised is TRUE when split()[0] ends in IndexError.
StationCompletions(doc, cmds, stns) ==
    LET text_before_cursor == current_line_before_cursor(doc)
        text_before_cursor_stripped == lstrip(text_before_cursor)
        stripped_len == Len(text_before_cursor) - Len(text_before_cursor_stripped)
        words == split(text_before_cursor)
    IN  IF words = <<>> THEN [completions |-> {}, raised |-> TRUE]
        ELSE LET command == words[1]
                 offset_stations_string == stripped_len + Len(command) + 1
                 search_for == SubSeq(text_before_cursor, offset_stations_string + 1,
                                      Len(text_before_cursor))
             IN  IF command \in cmds
                 THEN [completions |->
                         { [text |-> m,
                            start_position |-> -(doc.cursor_position - offset_stations_string),
                            display_meta |-> stns[m]] :
                           m \in fuzzyfinder(search_for, DOMAIN stns) },
                       raised |-> FALSE]
                 ELSE [completions |-> {}, raised |-> FALSE]

\* Command mode with a slip: the suggestion is inserted at the cursor instead
\* of replacing the word before it.
CommandCompletions_AtCursor(doc, cmds) ==
    [completions |->
        { [text |-> m, start_position |-> 0, display_meta |-> None] :
          m \in fuzzyfinder(get_word_before_cursor(doc), cmds) },
     raised |-> FALSE]

\* The else branch of get_completions.
CommandCompletions(doc, cmds) ==
    LET word_before_cursor == get_word_before_cursor(doc)
    IN  [completions |->
            { [text |-> m, start_position |-> -Len(word_before_cursor),
               display_meta |-> None] :
              m \in fuzzyfinder(word_before_cursor, cmds) },
         raised |-> FALSE]

\* RadioCompleter.get_completions: the arguments of every Completion(...) the
\* generator makes
get_completions(doc, cmds, stns) ==
    IF Contains(current_line_before_cursor(doc), " ")
    THEN StationCompletions(doc, cmds, stns)
    ELSE CommandCompletions(doc, cmds)

\* the keys of COMMANDS
COMMANDS_keys == {"play", "listen", "show", "info", "search"}

CatFrance == ("France Inter" :> "http://inter") @@ ("France Info" :> "http://info")

CatX == ("X" :> "http://a") @@ ("X 2" :> "http://b c")

Catalogs == {EmptyDict, CatFrance, CatX}

Documents ==
    { [text |-> t, cursor_position |-> c] :
        <<t, c>> \in { <<t, c>> \in
            TokenLines({"play", "pl", "fra", "x", " ", "\t"}, MaxDocTokens) \X (0..(4 * MaxDocTokens)) :
            c <= Len(t) } }

CompleteInit ==
    /\ ExtractOff
    /\ ParseOff
    /\ MainOff
    /\ document \in Documents
    /\ commands \in {COMMANDS_keys, {"play", "listen"}}
    /\ stations \in Catalogs
    /\ completions = NoCompletions
    /\ co_pc = "call"

Complete ==
    /\ co_pc = "call"
    /\ completions' = get_completions(document, commands, stations)
    /\ co_pc' = "done"
    /\ UNCHANGED <<document, commands, stations, exvars, pavars, mavars>>

CompleteNext == Complete

SpecComplete == CompleteInit /\ [][CompleteNext]_vars

-----------------------------------------------------------------------------
(* Properties of the completion engine *)

SuggestedTexts == { c.text : c \in completions.completions }

\* The offset in the line at which a suggestion replaces text.
Anchor(c) == document.cursor_position + c.start_position

\* C6: every suggestion is anchored between 0 and the cursor: the start
\* position handed to Completion is never positive.
C6_SuggestionsNotPastCursor ==
    co_pc = "done" =>
        \A c \in completions.completions :
            c.start_position <= 0 /\ Anchor(c) >= 0

\* The general part of C7: with no whitespace before the cursor the suggested
\* texts are the commands that fuzzy-match the text before the cursor, each
\* anchored at the start of that word, offset 0.
CommandModeMatches ==
    (co_pc = "done" /\ ~HasWhitespace(current_line_before_cursor(document))) =>
        /\ ~completions.raised
        /\ SuggestedTexts =
             { m \in commands : FuzzyMatch(current_line_before_cursor(document), m) }
        /\ \A c \in completions.completions : Anchor(c) = 0

IsPlCase ==
    /\ co_pc = "done"
    /\ document = [text |-> "pl", cursor_position |-> 2]
    /\ commands = {"play", "listen"}

\* C7 as stated: command mode suggests the fuzzy matches at offset 0, and for
\* "pl" over {play, listen} the suggestions are exactly play and listen.
C7_CommandModeAsStated ==
    /\ CommandModeMatches
    /\ IsPlCase => SuggestedTexts = {"play", "listen"}

\* C7 as amended: command mode suggests the fuzzy matches at offset 0, and
\* for "pl" over {play, listen} the only suggestion is play (listen holds no
\* "p"), anchored at offset 0.
C7_CommandMode ==
    /\ CommandModeMatches
    /\ IsPlCase =>
         completions.completions =
            { [text |-> "play", start_position |-> -2, display_meta |-> None] }

C7_Witness == IsPlCase /\ "play" \in SuggestedTexts

\* The line is cmd, one space and a query, with the cursor at its end.
IsStationLine(cmd) ==
    /\ StartsWith(document.text, cmd \o " ")
    /\ document.cursor_position = Len(document.text)

\* C8: for a line <recognized command> + one space + query with the cursor
\* at the end, the suggested texts are the catalog names that fuzzy-match the
\* query, each labelled with its catalog URL and anchored right after the
\* separating space; "play fra" suggests both France stations at offset 5.
C8_StationMode ==
    co_pc = "done" =>
        \A cmd \in commands :
            IsStationLine(cmd) =>
                LET query == SubSeq(document.text, Len(cmd) + 2, Len(document.text))
                IN  /\ ~completions.raised
                    /\ SuggestedTexts = { n \in DOMAIN stations : FuzzyMatch(query, n) }
                    /\ \A c \in completions.completions :
                           /\ c.display_meta = stations[c.text]
                           /\ Anchor(c) = Len(cmd) + 1
                    /\ (document.text = "play fra" /\ stations = CatFrance) =>
                           /\ SuggestedTexts = {"France Inter", "France Info"}
                           /\ \A c \in completions.completions : Anchor(c) = 5

C8_Witness ==
    /\ co_pc = "done"
    /\ document = [text |-> "play fra", cursor_position |-> 8]
    /\ stations = CatFrance
    /\ SuggestedTexts = {"France Inter", "France Info"}

-----------------------------------------------------------------------------
(* main: refresh or load, then the REPL and its command handlers *)

Players == {"mpv", "vlc", "mplayer"}

MEDIA_PLAYERS_DEFAULT_ARGS == ("mpv" :> "--no-video") @@ ("vlc" :> "")

\* fmt_player_cmd(player, player_args, url)
fmt_player_cmd(player, player_args, url) == player \o " " \o player_args \o " " \o url

\* The lines the user submits at the prompt.
ReplLines ==
    { "", "play", "play X", "play X 2", "listen X", "play Y", "  play   X  ",
      "info X", "show Y", "search x", "search", "zz X" }

MainInit ==
    /\ ExtractOff
    /\ ParseOff
    /\ CompleteOff
    /\ main_pc = "start"
    /\ PLAYER \in Players
    /\ refresh \in BOOLEAN
    /\ stations_file \in {NoFile} \cup { <<d>> : d \in Catalogs }
    /\ exc = None
    /\ running = 0
    /\ cmd_line = <<>>
    /\ printed = {}
    /\ n_interrupts = 0

\* save_stations_to_file(stations, filename), called by main's refresh:
\* open(path, "w") either fails and leaves the file alone, or empties the
\* file; then print and json.dump either fail, leaving a cut-off file, or
\* write the whole dict.
save_stations_to_file(d) ==
    \/ /\ main_pc' = "Crashed"
       /\ UNCHANGED stations_file
    \/ /\ main_pc' = "Crashed"
       /\ stations_file' = PartialFile(d)
    \/ /\ main_pc' = "AwaitingInput"
       /\ stations_file' = <<d>>

\* if args.refresh or not os.path.isfile(stations_file): download and save.
\* The download raises when the fetch fails or the extraction loop raises.
Refresh ==
    /\ main_pc = "start"
    /\ refresh \/ stations_file = NoFile
    /\ \/ /\ main_pc' = "Crashed"
          /\ UNCHANGED <<radio_stations, stations_file>>
       \/ \E ls \in FetchedSeqs :
              LET r == RunLoop(ls)
              IN  IF r.raised
                  THEN /\ main_pc' = "Crashed"
                       /\ UNCHANGED <<radio_stations, stations_file>>
                  ELSE /\ radio_stations' = r.radio_stations
                       /\ save_stations_to_file(r.radio_stations)
    /\ UNCHANGED <<exlocals, pavars, covars, PLAYER, refresh, exc, running, cmd_line,
                   printed, n_interrupts>>

\* else: radio_stations = load_stations_from_file(stations_file)
Load ==
    /\ main_pc = "start"
    /\ ~(refresh \/ stations_file = NoFile)
    /\ radio_stations' = stations_file[1]
    /\ main_pc' = "AwaitingInput"
    /\ UNCHANGED <<exlocals, pavars, covars, PLAYER, refresh, stations_file, exc, running,
                   cmd_line, printed, n_interrupts>>

\* The documents the line editor hands to the completer while the user types.
ReplDocuments ==
    { [text |-> "play X", cursor_position |-> 6],
      [text |-> " ", cursor_position |-> 1] }

\* prompt(...) is over: the line being typed and its suggestions are gone.
PromptOver ==
    /\ document' = NoDocument
    /\ completions' = NoCompletions
    /\ UNCHANGED <<commands, stations, co_pc>>

\* Inside prompt(...): the line editor runs the completer,
\* RadioCompleter(commands=COMMANDS, stations=radio_stations), on the line
\* typed so far; an exception of the completer stays in the completion thread.
CompleteAtPrompt ==
    /\ main_pc = "AwaitingInput"
    /\ \E doc \in ReplDocuments :
          /\ document' = doc
          /\ completions' = get_completions(doc, COMMANDS_keys, radio_stations)
    /\ co_pc' = "done"
    /\ UNCHANGED <<exvars, pavars, commands, stations, mavars>>

\* prompt(...) returns a line
PromptLine ==
    /\ main_pc = "AwaitingInput"
    /\ \E line \in ReplLines : user_input' = line
    /\ parsed' = NotParsed
    /\ cmd_line' = <<>>
    /\ printed' = {}
    /\ main_pc' = "Dispatching"
    /\ PromptOver
    /\ UNCHANGED <<exvars, pa_pc, PLAYER, refresh, stations_file, exc, running,
                   n_interrupts>>

\* prompt(...) raises KeyboardInterrupt (Control-C)
PromptInterrupt ==
    /\ main_pc = "AwaitingInput"
    /\ n_interrupts < MaxInterrupts
    /\ exc' = "KeyboardInterrupt"
    /\ main_pc' = "Raised"
    /\ PromptOver
    /\ UNCHANGED <<exvars, pavars, PLAYER, refresh, stations_file, running,
                   cmd_line, printed, n_interrupts>>

\* prompt(...) raises EOFError (Control-D)
PromptEOF ==
    /\ main_pc = "AwaitingInput"
    /\ exc' = "EOFError"
    /\ main_pc' = "Raised"
    /\ PromptOver
    /\ UNCHANGED <<exvars, pavars, PLAYER, refresh, stations_file, running,
                   cmd_line, printed, n_interrupts>>

\* The except clause with a slip: Control-C leaves the loop.
ExceptKeyboardInterrupt_Breaks ==
    /\ main_pc = "Raised"
    /\ exc = "KeyboardInterrupt"
    /\ exc' = None
    /\ n_interrupts' = n_interrupts + 1
    /\ main_pc' = "Stopped"
    /\ UNCHANGED <<exvars, pavars, covars, PLAYER, refresh, stations_file, running,
                   cmd_line, printed>>

\* except KeyboardInterrupt: continue
ExceptKeyboardInterrupt ==
    /\ main_pc = "Raised"
    /\ exc = "KeyboardInterrupt"
    /\ exc' = None
    /\ n_interrupts' = n_interrupts + 1
    /\ main_pc' = "AwaitingInput"
    /\ UNCHANGED <<exvars, pavars, covars, PLAYER, refresh, stations_file, running,
                   cmd_line, printed>>

\* except EOFError: break
ExceptEOFError ==
    /\ main_pc = "Raised"
    /\ exc = "EOFError"
    /\ exc' = None
    /\ main_pc' = "Stopped"
    /\ UNCHANGED <<exvars, pavars, covars, PLAYER, refresh, stations_file, running,
                   cmd_line, printed, n_interrupts>>

\* f"Unkwnon station: {station_name}" (None is formatted as "None")
UnknownStationNotice(station_name) ==
    "Unkwnon station: " \o (IF station_name = None THEN "None" ELSE station_name)

\* command_play with a slip: subprocess.Popen instead of subprocess.run
\* starts the player and returns at once.
command_play_Popen(station_name) ==
    IF station_name \notin DOMAIN radio_stations
    THEN /\ printed' = {UnknownStationNotice(station_name)}
         /\ main_pc' = "AwaitingInput"
         /\ UNCHANGED <<running, cmd_line, radio_stations>>
    ELSE IF PLAYER \notin DOMAIN MEDIA_PLAYERS_DEFAULT_ARGS
    THEN /\ main_pc' = "Crashed"
         /\ UNCHANGED <<running, cmd_line, printed, radio_stations>>
    ELSE /\ cmd_line' = split(fmt_player_cmd(PLAYER, MEDIA_PLAYERS_DEFAULT_ARGS[PLAYER],
                                             radio_stations[station_name]))
         /\ running' = running + 1
         /\ main_pc' = "AwaitingInput"
         /\ UNCHANGED <<printed, radio_stations>>

\* command_play(radio_stations, station_name), up to the point where
\* subprocess.run blocks on the child
command_play(station_name) ==
    IF station_name \notin DOMAIN radio_stations
    THEN /\ printed' = {UnknownStationNotice(station_name)}
         /\ main_pc' = "AwaitingInput"
         /\ UNCHANGED <<running, cmd_line, radio_stations>>
    ELSE IF PLAYER \notin DOMAIN MEDIA_PLAYERS_DEFAULT_ARGS
    THEN \* KeyError, caught by no except clause of the REPL
         /\ main_pc' = "Crashed"
         /\ UNCHANGED <<running, cmd_line, printed, radio_stations>>
    ELSE /\ cmd_line' = split(fmt_player_cmd(PLAYER, MEDIA_PLAYERS_DEFAULT_ARGS[PLAYER],
                                             radio_stations[station_name]))
         /\ running' = running + 1
         /\ main_pc' = "Playing"
         /\ UNCHANGED <<printed, radio_stations>>

\* command_info with a slip: setdefault instead of get stores 'Unknown' under
\* a name the dict does not hold.
command_info_SetDefault(station_name) ==
    /\ printed' = IF station_name \notin DOMAIN radio_stations
                  THEN {UnknownStationNotice(station_name)}
                  ELSE {station_name \o ": " \o radio_stations[station_name]}
    /\ radio_stations' = IF station_name \notin DOMAIN radio_stations
                         THEN DictSet(radio_stations, station_name, "Unknown")
                         ELSE radio_stations
    /\ main_pc' = "AwaitingInput"
    /\ UNCHANGED <<running, cmd_line>>

\* command_info(radio_stations, station_name)
command_info(station_name) ==
    /\ printed' = IF station_name \notin DOMAIN radio_stations
                  THEN {UnknownStationNotice(station_name)}
                  ELSE {station_name \o ": " \o radio_stations[station_name]}
    /\ main_pc' = "AwaitingInput"
    /\ UNCHANGED <<running, cmd_line, radio_stations>>

\* command_search(radio_stations, station_name): the pager shows the matches;
\* fuzzyfinder turns an input that is no str into str(input)
command_search(station_name) ==
    /\ printed' = fuzzyfinder(IF station_name = None THEN "None" ELSE station_name,
                              DOMAIN radio_stations)
    /\ main_pc' = "AwaitingInput"
    /\ UNCHANGED <<running, cmd_line, radio_stations>>

\* command, station_name = parse_user_input(user_input)
\* if command in COMMANDS: COMMANDS[command](radio_stations, station_name)
Dispatch ==
    /\ main_pc = "Dispatching"
    /\ parsed' = parse_user_input(user_input)
    /\ LET command == parsed'.command
           station_name == parsed'.station_name
       IN  IF command \in {"play", "listen"} THEN command_play(station_name)
           ELSE IF command \in {"show", "info"} THEN command_info(station_name)
           ELSE IF command = "search" THEN command_search(station_name)
           ELSE /\ main_pc' = "AwaitingInput"
                /\ UNCHANGED <<running, cmd_line, printed, radio_stations>>
    /\ UNCHANGED <<exlocals, user_input, pa_pc, covars, PLAYER, refresh, stations_file, exc,
                   n_interrupts>>

\* subprocess.run returns: the player has exited
PlayerExits ==
    /\ main_pc = "Playing"
    /\ running' = running - 1
    /\ main_pc' = "AwaitingInput"
    /\ UNCHANGED <<exvars, pavars, covars, PLAYER, refresh, stations_file, exc, cmd_line,
                   printed, n_interrupts>>

\* Control-C while subprocess.run waits: run() kills the child, waits for it
\* and re-raises KeyboardInterrupt into the REPL's try block
PlayerInterrupted ==
    /\ main_pc = "Playing"
    /\ n_interrupts < MaxInterrupts
    /\ running' = running - 1
    /\ exc' = "KeyboardInterrupt"
    /\ main_pc' = "Raised"
    /\ UNCHANGED <<exvars, pavars, covars, PLAYER, refresh, stations_file, cmd_line,
                   printed, n_interrupts>>

Next ==
    \/ Refresh
    \/ Load
    \/ CompleteAtPrompt
    \/ PromptLine
    \/ PromptInterrupt
    \/ PromptEOF
    \/ ExceptKeyboardInterrupt
    \/ ExceptEOFError
    \/ Dispatch
    \/ PlayerExits
    \/ PlayerInterrupted

Init == MainInit

Spec == Init /\ [][Next]_vars

-----------------------------------------------------------------------------
(* Properties of the REPL *)

\* C9: with a player that has default arguments, a play/listen dispatch whose
\* argument is no key of the catalog spawns nothing and only prints the
\* unknown-station notice; one whose argument is a key spawns exactly one
\* player whose last argv entry is the station's catalog URL, and the REPL
\* waits for it: no line is acquired while a player is alive.
C9_PlayDispatch ==
    /\ [](main_pc \in {"AwaitingInput", "Dispatching"} => running = 0)
    /\ [][(/\ main_pc = "Dispatching"
           /\ PLAYER \in DOMAIN MEDIA_PLAYERS_DEFAULT_ARGS
           /\ parsed'.command \in {"play", "listen"}) =>
             IF parsed'.station_name \notin DOMAIN radio_stations
             THEN /\ running' = running
                  /\ cmd_line' = <<>>
                  /\ printed' = {UnknownStationNotice(parsed'.station_name)}
                  /\ main_pc' = "AwaitingInput"
             ELSE /\ running' = running + 1
                  /\ cmd_line' # <<>>
                  /\ cmd_line'[Len(cmd_line')] = radio_stations[parsed'.station_name]
                  /\ printed' = {}
                  /\ main_pc' = "Playing"]_vars

\* C10: a KeyboardInterrupt raised in the loop body only leads back to
\* AwaitingInput: no handler runs, nothing is spawned or printed, the catalog
\* and the stations file stay as they are; an EOFError leads to Stopped; and
\* from AwaitingInput the loop goes nowhere but to a dispatch or to one of
\* these two signals, however many interrupts came before (a completion of
\* the line being typed stays in AwaitingInput and touches nothing else).
C10_SignalHandling ==
    [][/\ (main_pc = "Raised" /\ exc = "KeyboardInterrupt") =>
            /\ main_pc' = "AwaitingInput"
            /\ UNCHANGED <<radio_stations, stations_file, running, cmd_line, printed,
                           user_input, parsed>>
       /\ (main_pc = "Raised" /\ exc = "EOFError") => main_pc' = "Stopped"
       /\ main_pc = "AwaitingInput" =>
            \/ main_pc' = "AwaitingInput" /\ UNCHANGED <<exvars, pavars, mavars>>
            \/ main_pc' = "Dispatching"
            \/ /\ main_pc' = "Raised"
               /\ exc' \in {"KeyboardInterrupt", "EOFError"}
               /\ UNCHANGED <<radio_stations, stations_file, running, cmd_line, printed>>
       /\ main_pc = "Stopped" => main_pc' = "Stopped"]_vars

\* The loop has stopped on end-of-input after MaxInterrupts interrupts.
C10_Witness == main_pc = "Stopped" /\ n_interrupts = MaxInterrupts

InLoop == main_pc \in {"AwaitingInput", "Dispatching", "Playing", "Raised"}

\* C11: whatever the player, the catalog and the submitted line, a dispatch
\* ends back in AwaitingInput (after the player has exited, when one was
\* spawned); the loop is left only through EOFError and no error escapes it.
C11_LoopEndsOnlyOnEOF ==
    [][/\ main_pc = "Dispatching" => main_pc' \in {"AwaitingInput", "Playing"}
       /\ InLoop => main_pc' # "Crashed"
       /\ (InLoop /\ main_pc' = "Stopped") => exc = "EOFError"]_vars

\* The dicts a run of the extraction over a fetched document returns.
ExtractedCatalogs ==
    { RunLoop(ls).radio_stations : ls \in { l \in FetchedSeqs : ~RunLoop(l).raised } }

\* C12: a refresh that fails leaves a stored stations file with the
\* contents it had, and the REPL starts only with the whole result of an
\* extraction, saved to the file, or with the dict loaded from the file.
C12_RefreshAtomic ==
    [][main_pc = "start" =>
          /\ main_pc' \in {"Crashed", "AwaitingInput"}
          /\ (main_pc' = "Crashed" /\ stations_file # NoFile) =>
                stations_file' = stations_file
          /\ main_pc' = "AwaitingInput" =>
                \/ /\ refresh \/ stations_file = NoFile
                   /\ radio_stations' \in ExtractedCatalogs
                   /\ stations_file' = <<radio_stations'>>
                \/ /\ ~(refresh \/ stations_file = NoFile)
                   /\ radio_stations' = stations_file[1]
                   /\ stations_file' = stations_file]_vars

\* The general part of C13: once main has left its start, nothing changes
\* the in-memory catalog or the stations file.
CatalogFrozenInLoop ==
    main_pc # "start" => UNCHANGED <<radio_stations, stations_file>>

\* C13 as stated: the catalog and the file are frozen once the loop runs, and
\* the file is written only before the loop, and only when -r was given.
C13_FrozenAsStated ==
    [][/\ CatalogFrozenInLoop
       /\ stations_file' # stations_file => (main_pc = "start" /\ refresh)]_vars

\* C13 as amended: the catalog and the file are frozen once the loop runs,
\* and the file is written only before the loop, and only when -r was given
\* or no stations file existed.
C13_Frozen ==
    [][/\ CatalogFrozenInLoop
       /\ stations_file' # stations_file =>
             (main_pc = "start" /\ (refresh \/ stations_file = NoFile))]_vars

\* The loop has run a show/info handler and the completer, has caught an
\* interrupt and has stopped on end-of-input.
C13_Witness ==
    /\ main_pc = "Stopped"
    /\ parsed.command \in {"show", "info"}
    /\ co_pc = "done"
    /\ n_interrupts > 0
    /\ stations_file = <<radio_stations>>

\* C14: at most one player is alive in every state, and none outside the
\* wait of subprocess.run; a player is spawned only when none is alive, and a
\* line is acquired only when none is alive, also after interrupts that came
\* while a player was running.
C14_OnePlayerAtATime ==
    /\ [](/\ running \in {0, 1}
          /\ running = 1 <=> main_pc = "Playing")
    /\ [][/\ running' > running => running = 0
          /\ (main_pc = "AwaitingInput" /\ main_pc' = "Dispatching") => running = 0]_vars

\* A player is running, spawned after an earlier interrupt was caught.
C14_Witness ==
    /\ main_pc = "Playing"
    /\ running = 1
    /\ n_interrupts >= 1

\* C15: for every text before the cursor, the empty line, lines of spaces
\* and lines with leading spaces included, get_completions returns its
\* suggestions without raising; and when the text holds a space and its first
\* whitespace-delimited token is no recognized command, it suggests nothing.
C15_CompletionTotal ==
    co_pc = "done" =>
        LET text_before_cursor == current_line_before_cursor(document)
            words == split(text_before_cursor)
        IN  /\ ~completions.raised
            /\ IsFiniteSet(completions.completions)
            /\ (/\ Contains(text_before_cursor, " ")
                /\ words # <<>>
                /\ words[1] \notin commands) => completions.completions = {}

\* C16: for every name n that extraction can put in the catalog and every
\* command c of play, listen, show, info, parsing the line c + " " + n that
\* accepting the completion produces returns (c, n), also when n holds
\* consecutive, leading or trailing whitespace.
C16_CompletedLineResolves ==
    pa_pc = "done" =>
        \A c \in StationCommands, n \in ExtractableNames :
            user_input = c \o " " \o n =>
                parsed = [command |-> c, station_name |-> n]

=============================================================================
